---- MODULE Spec2Model ----
(***************************************************************************)
(* A model of the debug-session runtimes of mlxprs:                        *)
(*   MLRuntime  (dialect B, "JS")  : src/unnamed/part_001                  *)
(*   XqyRuntime (dialect A, "XQY") : src/unnamed/part_002                  *)
(* and of the server discovery of its client,                              *)
(*   ClientContext and the functions beside it: src/client/marklogicClient.ts *)
(* A remote call is a record put into a set of calls in flight when the    *)
(* runtime issues it and taken out again by the step that delivers its     *)
(* response (or its transport failure) to the handlers the runtime         *)
(* attached to it.                                                         *)
(***************************************************************************)
EXTENDS Integers, Sequences, FiniteSets, TLC

\* ---------------------------------------------------------------- bounds
\* remote calls one runtime issues in a behaviour
MaxCalls == 3
\* concurrent waitTillPaused() invocations
MaxWaiters == 2
\* wait() calls one waitTillPaused() invocation issues
MaxPolls == 4
\* setBreakPoint/removeBreakPoint invocations on the breakpoint object
MaxOps == 2
\* largest expression id the line lookup returns (0 is the smallest)
MaxExprId == 1
\* sessions one dbg:connected() answer lists
MaxSessions == 2
\* characters of the query text given to sendRows
MaxText == 3

\* ------------------------------------------------------------ value sets
Dialects == {"JS", "XQY"}
RunTimeStates == {"shutdown", "launched", "attached", "error"}
\* the argument type of setRunTimeState: "error" is not in it
SettableStates == {"shutdown", "launched", "attached"}
\* request ids the remote engine hands out; "" is the unset session id
SessionIds == {"r1", "r2"}
\* non-empty status payloads of a wait() call, and transport errors
Payloads == {"p1", "p2"}
Errors == {"e1", "e2"}
ExprIds == 0 .. MaxExprId
\* what an evaluation call resolves with: a list of items, [{value: v}], as
\* launchWithDebugEval reads it, or an object holding a list, {value: [v]},
\* as findBreakPointExpr reads it
Shapes == {"items", "object"}
\* location.expr: <<>> is undefined, <<n>> is the number n
Undefined == <<>>

VARIABLES
    \* ---- the runtime object
    dialect,        \* which of the two runtime classes the object is
    runTimeState,   \* _runTimeState
    rid,            \* _rid
    inflight,       \* remote calls issued and not yet settled
    nCalls,         \* remote calls issued so far
    last,           \* the step taken last: [op, call, ok]
    launchIds,      \* ids returned so far by successful launch calls
    \* ---- MLRuntime.waitTillPaused
    waiters,        \* one record per waitTillPaused() invocation
    terminated,     \* terminate() has been invoked on the runtime
    \* ---- XqyRuntime breakpoints
    expr,           \* location.expr of the breakpoint object
    ops,            \* one record per setBreakPoint/removeBreakPoint invocation
    nLookups,       \* dbg:line lookup calls issued so far
    bpCalls,        \* dbg:break / dbg:clear calls issued so far, in order
    bpSettled,      \* indices of bpCalls whose response has arrived
    overlapped,     \* an operation was invoked before an earlier one settled
    remoteFailed,   \* some remote call of a breakpoint operation failed
    bpFailed,       \* indices of bpCalls whose response was a failure
    issued,         \* the operation of every remote call issued, in issue order
    \* ---- getAppServerListForJs, called on its own
    lPc,            \* "idle", "query" (listing query in flight), "resolved"
    engine,         \* the servers the engine knew and had connected at the query
    lResult,        \* the list the promise resolved with
    \* ---- getConnectedServers / getFilteredListOfJsAppServers
    dEntry,         \* the function invoked
    dPc,            \* where the invocation is
    marker,         \* requiredResponse
    hasCallback,    \* updateCallback was supplied
    dListOk,        \* outcome of the listing query: "none", "ok", "failed"
    choices,        \* allPossibleJsServers
    probes,         \* per choice: "pending" or the outcome of its probe
    filteredChoices,\* filteredChoices, in push order
    connectedIssued,\* the dbg:connected() query has been issued
    dFailure,       \* what rejected the invocation: "none", "probe", "query"
    items,          \* the sessions dbg:connected() answered
    lookups,        \* per session: "pending", "ok", "failed"
    connectedServers,\* connectedServers, in push order
    callbacks,      \* the lists handed to updateCallback, in order
    dResult,        \* the list the invocation resolved with
    \* ---- MlClientParameters objects and the ClientContext built on one
    rawP,           \* the raw bag the first parameter object was built from
    hasP,           \* the first parameter object exists
    params,         \* the first parameter object, as it is now
    params0,        \* the first parameter object, as its constructor left it
    rawQ,           \* the raw bag the second parameter object was built from
    hasQ,           \* the second parameter object exists
    other,          \* the second parameter object
    ctx,            \* the ClientContext built on the first object
    \* ---- sendRows
    rowsPc,         \* "idle", "sent", "resolved", "rejected", "threw"
    rowsText,       \* actualQuery
    rowsCall,       \* the remote rows.query calls issued, in order
    rowsResult,     \* what the returned promise resolved with
    \* ---- ClientFactory
    fRaw,           \* the raw bag the base factory was built from
    hasBase,        \* the base factory exists
    base,           \* the base factory
    fOverrides,     \* the overrides argument of the derivation
    role,           \* the role derived: "none", "rest", "manage", "test"
    derived,        \* the factory new<Role>ClientParams returned
    conn,           \* the ClientContext newMarklogic<Role>Client built
    connParams,     \* the parameter object that ClientContext holds
    caReadable      \* the CA file could be read when it was built

runtimeVars == <<dialect, runTimeState, rid, inflight, nCalls, last, launchIds>>
waitVars == <<waiters, terminated>>
bpVars == <<expr, ops, nLookups, bpCalls, bpSettled, overlapped, remoteFailed, bpFailed, issued>>
listVars == <<lPc, engine, lResult>>
discVars == <<dEntry, dPc, marker, hasCallback, dListOk, choices, probes, filteredChoices,
              connectedIssued, dFailure, items, lookups, connectedServers, callbacks,
              dResult>>
paramVars == <<rawP, hasP, params, params0, rawQ, hasQ, other, ctx>>
rowsVars == <<rowsPc, rowsText, rowsCall, rowsResult>>
factoryVars == <<fRaw, hasBase, base, fOverrides, role, derived, conn, connParams, caReadable>>
confVars == <<paramVars, rowsVars, factoryVars>>
clientVars == <<listVars, discVars, confVars>>
vars == <<runtimeVars, waitVars, bpVars, clientVars>>

\* ================================================ connection parameters

\* JavaScript values, each written as a string: undefined, null, NaN, the
\* booleans, numbers as their digits, and strings behind a leading quote
\* ("'" alone is the empty string)
Undef == "undefined"

Null == "null"

NaN == "NaN"

Numbers == {"0", "1", "10", "8000", "8001", "8002", "8010", "8020", "8030"}

\* ClientContext.DEFAULT_MANAGE_PORT, DEFAULT_ADMIN_PORT
DEFAULT_MANAGE_PORT == "8002"

DEFAULT_ADMIN_PORT == "8001"

\* a value in a condition or on the left of ||
Truthy(v) == v \notin {Undef, Null, NaN, "false", "0", "'"}

Or(a, b) == IF Truthy(a) THEN a ELSE b

\* Boolean(v)
ToBoolean(v) == IF Truthy(v) THEN "true" ELSE "false"

\* Number(v): numbers stay, a string of digits is parsed, the empty string,
\* null and false are 0, true is 1, everything else is NaN
ToNumber(v) ==
    IF v \in Numbers THEN v
    ELSE IF v = "'8000" THEN "8000"
    ELSE IF v = "'8010" THEN "8010"
    ELSE IF v \in {Null, "false", "'"} THEN "0"
    ELSE IF v = "true" THEN "1"
    ELSE NaN

\* a === b
StrictEq(a, b) == a = b /\ a # NaN

\* isNaN(v)
IsNaN(v) == ToNumber(v) = NaN

\* s.toUpperCase()
ToUpperCase(s) ==
    IF s = "'digest" THEN "'DIGEST"
    ELSE IF s = "'basic" THEN "'BASIC"
    ELSE IF s = "'cloud" THEN "'CLOUD"
    ELSE s

\* the keys a raw bag can hold
RawKeys ==
    {"host", "port", "basePath", "restBasePath", "managePort", "manageBasePath",
     "adminPort", "adminBasePath", "testPort", "testBasePath", "user", "pwd",
     "password", "contentDb", "documentsDb", "database", "modulesDb", "authType",
     "apiKey", "accessTokenDuration", "ssl", "pathToCa", "rejectUnauthorized"}

\* the bag {}
EmptyBag == [k \in RawKeys |-> Undef]

\* an auth scheme that loses its case instead of being replaced
AuthType_upperCased(a) ==
    IF ToUpperCase(a) \in {"'DIGEST", "'BASIC", "'CLOUD"} THEN ToUpperCase(a)
    ELSE "'DIGEST"

\* the authType test that ends the MlClientParameters constructor
AuthType(a) ==
    IF a # "'DIGEST" /\ a # "'BASIC" /\ a # "'CLOUD" THEN "'DIGEST" ELSE a

\* new MlClientParameters(rawParams)
MlClientParameters(rawParams) ==
    [host |-> rawParams.host,
     port |-> ToNumber(rawParams.port),
     restBasePath |-> Or(rawParams.restBasePath, "'"),
     managePort |-> Or(ToNumber(rawParams.managePort), DEFAULT_MANAGE_PORT),
     manageBasePath |-> Or(rawParams.manageBasePath, "'"),
     adminPort |-> Or(ToNumber(rawParams.adminPort), DEFAULT_ADMIN_PORT),
     adminBasePath |-> Or(rawParams.adminBasePath, "'"),
     testPort |-> ToNumber(rawParams.testPort),
     testBasePath |-> Or(rawParams.testBasePath, "'"),
     user |-> rawParams.user,
     pwd |-> rawParams.pwd,
     contentDb |-> Or(Or(rawParams.contentDb, rawParams.documentsDb), "'"),
     modulesDb |-> Or(rawParams.modulesDb, "'"),
     authType |-> AuthType(rawParams.authType),
     apiKey |-> rawParams.apiKey,
     accessTokenDuration |-> rawParams.accessTokenDuration,
     ssl |-> ToBoolean(rawParams.ssl),
     pathToCa |-> Or(rawParams.pathToCa, "'"),
     rejectUnauthorized |-> ToBoolean(rawParams.rejectUnauthorized)]

\* an equality that also looks at the manage port
sameAs_comparesManagePort(this, that) ==
    /\ StrictEq(this.host, that.host)
    /\ ((IsNaN(this.port) /\ IsNaN(that.port)) \/ StrictEq(this.port, that.port))
    /\ StrictEq(this.managePort, that.managePort)
    /\ StrictEq(this.contentDb, that.contentDb)
    /\ StrictEq(this.modulesDb, that.modulesDb)
    /\ StrictEq(this.user, that.user)
    /\ StrictEq(this.pwd, that.pwd)
    /\ StrictEq(this.authType, that.authType)
    /\ StrictEq(this.apiKey, that.apiKey)
    /\ StrictEq(this.accessTokenDuration, that.accessTokenDuration)
    /\ StrictEq(this.ssl, that.ssl)
    /\ StrictEq(this.pathToCa, that.pathToCa)
    /\ StrictEq(this.rejectUnauthorized, that.rejectUnauthorized)

\* an equality without the clause for two not-a-number ports
sameAs_strictPort(this, that) ==
    /\ StrictEq(this.host, that.host)
    /\ StrictEq(this.port, that.port)
    /\ StrictEq(this.contentDb, that.contentDb)
    /\ StrictEq(this.modulesDb, that.modulesDb)
    /\ StrictEq(this.user, that.user)
    /\ StrictEq(this.pwd, that.pwd)
    /\ StrictEq(this.authType, that.authType)
    /\ StrictEq(this.apiKey, that.apiKey)
    /\ StrictEq(this.accessTokenDuration, that.accessTokenDuration)
    /\ StrictEq(this.ssl, that.ssl)
    /\ StrictEq(this.pathToCa, that.pathToCa)
    /\ StrictEq(this.rejectUnauthorized, that.rejectUnauthorized)

\* MlClientParameters.sameAs
sameAs(this, that) ==
    /\ StrictEq(this.host, that.host)
    /\ ((IsNaN(this.port) /\ IsNaN(that.port)) \/ StrictEq(this.port, that.port))
    /\ StrictEq(this.contentDb, that.contentDb)
    /\ StrictEq(this.modulesDb, that.modulesDb)
    /\ StrictEq(this.user, that.user)
    /\ StrictEq(this.pwd, that.pwd)
    /\ StrictEq(this.authType, that.authType)
    /\ StrictEq(this.apiKey, that.apiKey)
    /\ StrictEq(this.accessTokenDuration, that.accessTokenDuration)
    /\ StrictEq(this.ssl, that.ssl)
    /\ StrictEq(this.pathToCa, that.pathToCa)
    /\ StrictEq(this.rejectUnauthorized, that.rejectUnauthorized)

\* the options the ClientContext constructor hands to ml.createDatabaseClient
ClientConfig(ps, ca) ==
    [host |-> ps.host, port |-> ps.port, basePath |-> ps.restBasePath,
     user |-> ps.user, password |-> ps.pwd, database |-> ps.contentDb,
     authType |-> ps.authType, ssl |-> ps.ssl, apiKey |-> ps.apiKey,
     accessTokenDuration |-> ps.accessTokenDuration, ca |-> ca,
     rejectUnauthorized |-> ps.rejectUnauthorized]

\* no ClientContext constructed yet
NoContext == [state |-> "none", ca |-> Undef, client |-> ClientConfig(EmptyBag, Undef),
              reads |-> 0]

\* a constructor that goes on without the CA when the file cannot be read
ClientContext_buildsWithoutCa(ps, readable) ==
    LET upper == [ps EXCEPT !.authType = ToUpperCase(ps.authType)]
        wantsCa == Truthy(ps.pathToCa) /\ ps.pathToCa # "'"
        nulled == IF ~Truthy(upper.contentDb) THEN [upper EXCEPT !.contentDb = Null]
                  ELSE upper
        ca == IF wantsCa /\ readable THEN "'pem" ELSE Undef
    IN  [params |-> nulled,
         ctx |-> [state |-> "built", ca |-> ca, client |-> ClientConfig(nulled, ca),
                  reads |-> IF wantsCa THEN 1 ELSE 0]]

\* the ClientContext constructor on the parameter object ps, with the CA file
\* readable or not: what it throws or builds, and what it leaves in ps,
\* which it keeps by reference and assigns to
ClientContext(ps, readable) ==
    LET upper == [ps EXCEPT !.authType = ToUpperCase(ps.authType)]
        wantsCa == Truthy(ps.pathToCa) /\ ps.pathToCa # "'"
        nulled == IF ~Truthy(upper.contentDb) THEN [upper EXCEPT !.contentDb = Null]
                  ELSE upper
        ca == IF wantsCa THEN "'pem" ELSE Undef
    IN  IF wantsCa /\ ~readable
        THEN [params |-> upper,
              ctx |-> [state |-> "threw", ca |-> Undef,
                       client |-> ClientConfig(EmptyBag, Undef), reads |-> 1]]
        ELSE [params |-> nulled,
              ctx |-> [state |-> "built", ca |-> ca, client |-> ClientConfig(nulled, ca),
                       reads |-> IF wantsCa THEN 1 ELSE 0]]

\* the raw bags the first object is built from
ParamRaws ==
    {[EmptyBag EXCEPT !.host = "'h1", !.user = "'u1", !.pwd = "'pw1",
                      !.port = po, !.contentDb = c, !.documentsDb = d,
                      !.authType = a, !.pathToCa = ca] :
        po \in {Undef, "8000", "'8000"},
        c \in {Undef, "'", "'Documents"},
        d \in {Undef, "'Docs"},
        a \in {Undef, "'DIGEST", "'BASIC", "'CLOUD", "'basic", "'NTLM"},
        ca \in {Undef, "'/ca.pem"}}

\* the values the second bag can hold in the one key it may differ in
EditValues == {Undef, "'", "'x", "8010"}

ParamInit ==
    /\ rawP = EmptyBag
    /\ hasP = FALSE
    /\ params = MlClientParameters(EmptyBag)
    /\ params0 = MlClientParameters(EmptyBag)
    /\ rawQ = EmptyBag
    /\ hasQ = FALSE
    /\ other = MlClientParameters(EmptyBag)
    /\ ctx = NoContext


\* ========================================================= ClientFactory

\* the authType test that ends the ClientFactory constructor
FactoryAuthType(a) ==
    IF a # "'DIGEST" /\ a # "'BASIC" THEN "'DIGEST" ELSE a

\* new ClientFactory(rawParams); restBasePath is declared and never assigned
ClientFactory(rawParams) ==
    [host |-> rawParams.host,
     port |-> ToNumber(rawParams.port),
     basePath |-> Or(rawParams.basePath, "'"),
     restBasePath |-> Undef,
     managePort |-> ToNumber(rawParams.managePort),
     manageBasePath |-> Or(rawParams.manageBasePath, "'"),
     testPort |-> ToNumber(rawParams.testPort),
     testBasePath |-> Or(rawParams.testBasePath, "'"),
     adminPort |-> ToNumber(rawParams.adminPort),
     adminBasePath |-> Or(rawParams.adminBasePath, "'"),
     user |-> rawParams.user,
     password |-> rawParams.password,
     database |-> Or(Or(rawParams.contentDb, rawParams.documentsDb), "'"),
     modulesDb |-> Or(rawParams.modulesDb, "'"),
     authType |-> FactoryAuthType(rawParams.authType),
     ssl |-> ToBoolean(rawParams.ssl),
     pathToCa |-> Or(rawParams.pathToCa, "'"),
     rejectUnauthorized |-> ToBoolean(rawParams.rejectUnauthorized)]

\* a merge in which the first bag wins
Spread_firstWins(a, b) ==
    [k \in RawKeys |-> IF a[k] # Undef THEN a[k] ELSE b[k]]

\* { ...a, ...b }: the keys of b replace those of a
Spread(a, b) ==
    [k \in RawKeys |-> IF b[k] # Undef THEN b[k] ELSE a[k]]

\* the fields every role copies
SharedConfig(this) ==
    [EmptyBag EXCEPT !.host = this.host, !.user = this.user,
                     !.password = this.password,
                     !.authType = ToUpperCase(this.authType), !.ssl = this.ssl,
                     !.pathToCa = Or(this.pathToCa, "'"),
                     !.rejectUnauthorized = this.rejectUnauthorized]

\* ClientFactory.newRestClientParams
newRestClientParams(this, overrides) ==
    ClientFactory(Spread([SharedConfig(this) EXCEPT !.port = this.port,
                                                    !.basePath = this.restBasePath,
                                                    !.database = this.database,
                                                    !.modulesDb = this.modulesDb],
                         overrides))

\* a manage derivation that hands the base's databases on
newManageClientParams_keepsDatabases(this, overrides) ==
    ClientFactory(Spread([SharedConfig(this) EXCEPT !.port = this.managePort,
                                                    !.basePath = this.manageBasePath,
                                                    !.contentDb = this.database,
                                                    !.modulesDb = this.modulesDb],
                         overrides))

\* ClientFactory.newManageClientParams
newManageClientParams(this, overrides) ==
    ClientFactory(Spread([SharedConfig(this) EXCEPT !.port = this.managePort,
                                                    !.basePath = this.manageBasePath,
                                                    !.database = Null,
                                                    !.modulesDb = Null],
                         overrides))

\* ClientFactory.newTestClientParams
newTestClientParams(this, overrides) ==
    ClientFactory(Spread([SharedConfig(this) EXCEPT !.port = this.testPort,
                                                    !.basePath = this.testBasePath,
                                                    !.database = Null,
                                                    !.modulesDb = Null],
                         overrides))

\* ClientFactory.toMlClientParameters
toMlClientParameters(this) ==
    MlClientParameters([EmptyBag EXCEPT !.host = this.host, !.port = this.port,
                                        !.basePath = this.basePath,
                                        !.user = this.user, !.pwd = this.password,
                                        !.contentDb = this.database,
                                        !.modulesDb = this.modulesDb,
                                        !.authType = this.authType, !.ssl = this.ssl,
                                        !.pathToCa = this.pathToCa,
                                        !.rejectUnauthorized = this.rejectUnauthorized])

FactoryInit ==
    /\ fRaw = EmptyBag
    /\ hasBase = FALSE
    /\ base = ClientFactory(EmptyBag)
    /\ fOverrides = EmptyBag
    /\ role = "none"
    /\ derived = ClientFactory(EmptyBag)
    /\ conn = NoContext
    /\ connParams = MlClientParameters(EmptyBag)
    /\ caReadable = TRUE

\* ================================================================ runtime

Call(kind, target) == [id |-> nCalls + 1, kind |-> kind, target |-> target]

Step(op, call, ok) == [op |-> op, call |-> call, ok |-> ok]

Reply(shape, v) == [shape |-> shape, value |-> v]

\* fulfill[0]['value']: <<v>>, or <<>> when the read throws a TypeError
\* (fulfill[0] is undefined)
FirstItemValue(fulfill) ==
    IF fulfill.shape = "items" THEN <<fulfill.value>> ELSE <<>>

\* fulfill['value'][0]: <<v>>, or <<>> when the read throws a TypeError
\* (fulfill['value'] is undefined)
ValueFirstItem(fulfill) ==
    IF fulfill.shape = "object" THEN <<fulfill.value>> ELSE <<>>

\* issue one remote call: the request leaves before the operation returns
Issue(kind, target) ==
    /\ nCalls < MaxCalls
    /\ inflight' = inflight \cup {Call(kind, target)}
    /\ nCalls' = nCalls + 1

\* getRunTimeState / setRunTimeState: an unconditional assignment
setRunTimeState(state) ==
    /\ state \in SettableStates
    /\ runTimeState' = state
    /\ last' = Step("setRunTimeState", 0, TRUE)
    /\ UNCHANGED <<dialect, rid, inflight, nCalls, launchIds, waitVars, bpVars, clientVars>>

setRid(r) ==
    /\ rid' = r
    /\ last' = Step("setRid", 0, TRUE)
    /\ UNCHANGED <<dialect, runTimeState, inflight, nCalls, launchIds, waitVars, bpVars, clientVars>>

\* MLRuntime.launchWithDebugEval: reads the script (which may throw), sets
\* the state to launched, then posts the eval request and returns its promise
ML_launchWithDebugEval(readable) ==
    /\ dialect = "JS"
    /\ IF readable
       THEN /\ Issue("eval", "none")
            /\ runTimeState' = "launched"
            /\ last' = Step("launch", nCalls + 1, TRUE)
       ELSE /\ last' = Step("launchThrew", 0, FALSE)
            /\ UNCHANGED <<runTimeState, inflight, nCalls>>
    /\ UNCHANGED <<dialect, rid, launchIds, waitVars, bpVars, clientVars>>

\* the eval request of MLRuntime settles: the runtime attached no handler to
\* it, the promise goes to the caller as it is
ML_launchSettled(c, ok, id) ==
    /\ dialect = "JS"
    /\ c \in inflight /\ c.kind = "eval"
    /\ inflight' = inflight \ {c}
    /\ last' = Step("launchSettled", c.id, ok)
    /\ launchIds' = IF ok THEN launchIds \cup {id} ELSE launchIds
    /\ UNCHANGED <<dialect, runTimeState, rid, nCalls, waitVars, bpVars, clientVars>>

\* XqyRuntime.launchWithDebugEval: dispatches through dbg:eval and returns
\* the promise of the two callbacks below
Xqy_launchWithDebugEval ==
    /\ dialect = "XQY"
    /\ Issue("eval", "none")
    /\ last' = Step("launch", nCalls + 1, TRUE)
    /\ UNCHANGED <<dialect, runTimeState, rid, launchIds, waitVars, bpVars, clientVars>>

\* the fulfill callback: _rid = fulfill[0]['value'], then launched; a
\* TypeError thrown by the read leaves both as they were
Xqy_launchFulfill(c, fulfill) ==
    /\ dialect = "XQY"
    /\ c \in inflight /\ c.kind = "eval"
    /\ inflight' = inflight \ {c}
    /\ launchIds' = launchIds \cup {fulfill.value}
    /\ IF FirstItemValue(fulfill) # <<>>
       THEN /\ rid' = FirstItemValue(fulfill)[1]
            /\ runTimeState' = "launched"
            /\ last' = Step("launchSettled", c.id, TRUE)
       ELSE /\ last' = Step("launchCallbackThrew", c.id, TRUE)
            /\ UNCHANGED <<rid, runTimeState>>
    /\ UNCHANGED <<dialect, nCalls, waitVars, bpVars, clientVars>>

\* the error callback: _runTimeState = 'error'
Xqy_launchError(c) ==
    /\ dialect = "XQY"
    /\ c \in inflight /\ c.kind = "eval"
    /\ inflight' = inflight \ {c}
    /\ runTimeState' = "error"
    /\ last' = Step("launchSettled", c.id, FALSE)
    /\ UNCHANGED <<dialect, rid, nCalls, launchIds, waitVars, bpVars, clientVars>>

\* MLRuntime.resume -> _sendMLdebugRequestPOST("resume"): posts to
\* .../jsdbg/v1/resume/${this._rid}
ML_resume ==
    /\ dialect = "JS"
    /\ Issue("resume", rid)
    /\ last' = Step("resume", nCalls + 1, TRUE)
    /\ UNCHANGED <<dialect, runTimeState, rid, launchIds, waitVars, bpVars, clientVars>>

\* XqyRuntime.resume: sendXQuery(dbg:continue(${this._rid}))
Xqy_resume ==
    /\ dialect = "XQY"
    /\ Issue("resume", rid)
    /\ last' = Step("resume", nCalls + 1, TRUE)
    /\ UNCHANGED <<dialect, runTimeState, rid, launchIds, waitVars, bpVars, clientVars>>

\* MLRuntime.stepOver / stepInto / stepOut / disable: each posts its verb
\* to .../jsdbg/v1/<verb>/${this._rid} and returns the promise of the request
ML_stepOver ==
    /\ dialect = "JS"
    /\ Issue("step-over", rid)
    /\ last' = Step("stepOver", nCalls + 1, TRUE)
    /\ UNCHANGED <<dialect, runTimeState, rid, launchIds, waitVars, bpVars, clientVars>>

ML_stepInto ==
    /\ dialect = "JS"
    /\ Issue("step-into", rid)
    /\ last' = Step("stepInto", nCalls + 1, TRUE)
    /\ UNCHANGED <<dialect, runTimeState, rid, launchIds, waitVars, bpVars, clientVars>>

ML_stepOut ==
    /\ dialect = "JS"
    /\ Issue("step-out", rid)
    /\ last' = Step("stepOut", nCalls + 1, TRUE)
    /\ UNCHANGED <<dialect, runTimeState, rid, launchIds, waitVars, bpVars, clientVars>>

ML_disable ==
    /\ dialect = "JS"
    /\ Issue("disable", rid)
    /\ last' = Step("disable", nCalls + 1, TRUE)
    /\ UNCHANGED <<dialect, runTimeState, rid, launchIds, waitVars, bpVars, clientVars>>

\* XqyRuntime.stepOver / stepInto / stepOut: sendXQuery of dbg:next,
\* dbg:step, dbg:out applied to ${this._rid}
Xqy_stepOver ==
    /\ dialect = "XQY"
    /\ Issue("step-over", rid)
    /\ last' = Step("stepOver", nCalls + 1, TRUE)
    /\ UNCHANGED <<dialect, runTimeState, rid, launchIds, waitVars, bpVars, clientVars>>

Xqy_stepInto ==
    /\ dialect = "XQY"
    /\ Issue("step-into", rid)
    /\ last' = Step("stepInto", nCalls + 1, TRUE)
    /\ UNCHANGED <<dialect, runTimeState, rid, launchIds, waitVars, bpVars, clientVars>>

Xqy_stepOut ==
    /\ dialect = "XQY"
    /\ Issue("step-out", rid)
    /\ last' = Step("stepOut", nCalls + 1, TRUE)
    /\ UNCHANGED <<dialect, runTimeState, rid, launchIds, waitVars, bpVars, clientVars>>

\* a disable() that also forgets the session id
Xqy_disable_dropsRid ==
    /\ dialect = "XQY"
    /\ Issue("disable", rid)
    /\ rid' = ""
    /\ last' = Step("disable", nCalls + 1, TRUE)
    /\ UNCHANGED <<dialect, runTimeState, launchIds, waitVars, bpVars, clientVars>>

\* XqyRuntime.disable: sendXQuery(dbg:value(${this._rid})), one call on the
\* session id
Xqy_disable ==
    /\ dialect = "XQY"
    /\ Issue("disable", rid)
    /\ last' = Step("disable", nCalls + 1, TRUE)
    /\ UNCHANGED <<dialect, runTimeState, rid, launchIds, waitVars, bpVars, clientVars>>

\* MLRuntime.terminate: posts request-cancel for the session id
ML_terminate ==
    /\ dialect = "JS"
    /\ Issue("request-cancel", rid)
    /\ last' = Step("terminate", nCalls + 1, TRUE)
    /\ terminated' = TRUE
    /\ UNCHANGED <<dialect, runTimeState, rid, launchIds, waiters, bpVars, clientVars>>

\* XqyRuntime.terminate: sendXQuery('dbg:disconnent(xdmp:server())')
Xqy_terminate ==
    /\ dialect = "XQY"
    /\ Issue("request-cancel", "xdmp:server()")
    /\ last' = Step("terminate", nCalls + 1, TRUE)
    /\ terminated' = TRUE
    /\ UNCHANGED <<dialect, runTimeState, rid, launchIds, waiters, bpVars, clientVars>>

\* the calls of resume, stepOver, stepInto, stepOut and disable
ControlKinds == {"resume", "step-over", "step-into", "step-out", "disable"}

\* the call of a control operation or of terminate settles: neither runtime
\* attached a handler to it, so nothing of the runtime changes
ControlSettled(c, ok) ==
    /\ c \in inflight /\ c.kind \in ControlKinds \cup {"request-cancel"}
    /\ inflight' = inflight \ {c}
    /\ last' = Step(IF c.kind = "resume" THEN "resumeSettled"
                    ELSE IF c.kind = "request-cancel" THEN "terminateSettled"
                    ELSE "controlSettled",
                    c.id, ok)
    /\ UNCHANGED <<dialect, runTimeState, rid, nCalls, launchIds, waitVars, bpVars, clientVars>>

RuntimeInit ==
    /\ dialect \in Dialects
    /\ runTimeState = "shutdown"
    /\ rid = ""
    /\ inflight = {}
    /\ nCalls = 0
    /\ last = Step("init", 0, TRUE)
    /\ launchIds = {}

Waiter0 == [pc |-> "idle", calls |-> 0, pending |-> 0, replies |-> <<>>, result |-> "none"]

WaitInit ==
    /\ waiters = [w \in 1 .. MaxWaiters |-> Waiter0]
    /\ terminated = FALSE

BpInit ==
    /\ expr = Undefined
    /\ ops = <<>>
    /\ nLookups = 0
    /\ bpCalls = <<>>
    /\ bpSettled = {}
    /\ overlapped = FALSE
    /\ remoteFailed = FALSE
    /\ bpFailed = {}
    /\ issued = <<>>

ListInit ==
    /\ lPc = "idle"
    /\ engine = [known |-> {}, connected |-> {}]
    /\ lResult = <<>>

DiscInit ==
    /\ dEntry = "none"
    /\ dPc = "idle"
    /\ marker = "none"
    /\ hasCallback = FALSE
    /\ dListOk = "none"
    /\ choices = <<>>
    /\ probes = <<>>
    /\ filteredChoices = <<>>
    /\ connectedIssued = FALSE
    /\ dFailure = "none"
    /\ items = <<>>
    /\ lookups = <<>>
    /\ connectedServers = <<>>
    /\ callbacks = <<>>
    /\ dResult = <<>>

RowsInit ==
    /\ rowsPc = "idle"
    /\ rowsText = <<>>
    /\ rowsCall = <<>>
    /\ rowsResult = [columns |-> <<>>, rows |-> <<>>, preRequestError |-> <<>>]

ConfInit == ParamInit /\ RowsInit /\ FactoryInit

Init == RuntimeInit /\ WaitInit /\ BpInit /\ ListInit /\ DiscInit /\ ConfInit

\* launch invocations and the completions of their remote calls
LaunchNext ==
    \/ \E readable \in BOOLEAN : ML_launchWithDebugEval(readable)
    \/ \E c \in inflight, ok \in BOOLEAN, id \in SessionIds : ML_launchSettled(c, ok, id)
    \/ Xqy_launchWithDebugEval
    \/ \E c \in inflight, shape \in Shapes, id \in SessionIds :
          Xqy_launchFulfill(c, Reply(shape, id))
    \/ \E c \in inflight : Xqy_launchError(c)

RuntimeNext ==
    \/ LaunchNext
    \/ \E s \in SettableStates : setRunTimeState(s)
    \/ \E r \in SessionIds : setRid(r)
    \/ ML_resume
    \/ Xqy_resume
    \/ ML_terminate
    \/ Xqy_terminate
    \/ \E c \in inflight, ok \in BOOLEAN : ControlSettled(c, ok)

\* the control operations, between changes of the state, on a runtime whose
\* session id is set once
ControlNext ==
    \/ \E s \in SettableStates : setRunTimeState(s)
    \/ rid = "" /\ \E r \in SessionIds : setRid(r)
    \/ ML_resume
    \/ ML_stepOver
    \/ ML_stepInto
    \/ ML_stepOut
    \/ ML_disable
    \/ Xqy_resume
    \/ Xqy_stepOver
    \/ Xqy_stepInto
    \/ Xqy_stepOut
    \/ Xqy_disable
    \/ \E c \in inflight, ok \in BOOLEAN : ControlSettled(c, ok)

SpecLaunch == Init /\ [][LaunchNext]_vars

SpecControl == Init /\ [][ControlNext]_vars

SpecRuntime == Init /\ [][RuntimeNext]_vars

\* --------------------------------------------- properties of the runtime

\* C1: in both dialects, once the remote cancellation call of terminate()
\* has settled (succeeded or failed), the local state is shutdown.
C1_TerminateForcesShutdown ==
    last.op = "terminateSettled" => runTimeState = "shutdown"

\* C2: in both dialects, when the debug-evaluation dispatch of a launch
\* fails (no launch having succeeded before it), the local state is error
\* and the session id is still the empty string.
C2_LaunchFailureIsError ==
    (last.op = "launchSettled" /\ ~last.ok /\ launchIds = {})
        => (runTimeState = "error" /\ rid = "")

\* C3: in every state reached by launch invocations and the completions of
\* their remote calls, launched implies that the session id is a (non-empty)
\* id returned by a successful launch call.
C3_LaunchedHasSessionId ==
    runTimeState = "launched" => (rid # "" /\ rid \in launchIds)

\* C4: error is terminal: no launch invocation, launch completion or
\* setRunTimeState call takes the state from error to launched or attached.
C4_ErrorIsTerminal ==
    [][runTimeState = "error" => runTimeState' \notin {"launched", "attached"}]_vars

\* C5: resume() invoked while the session id is empty fails with an error and
\* issues no control call addressed to the empty session id.
C5_ResumeNeedsSessionId ==
    /\ (last.op = "resume" /\ rid = "") => ~last.ok
    /\ \A c \in inflight : c.kind = "resume" => c.target # ""

\* ==================================================== waitTillPaused (JS)

WaitReplies == {""} \cup Payloads \cup Errors

\* MLRuntime.wait: one POST of "time-out=5" to .../wait/${this._rid}
wait(r) == [r EXCEPT !.calls = @ + 1, !.pending = @ + 1]

\* plausible slips of the continuation of waitTillPaused
waitTillPausedStep_givesUpOnEmpty(r, reply) ==
    IF reply \in Errors
    THEN [r EXCEPT !.pc = "rejected", !.result = reply]
    ELSE IF reply = ""
         THEN r
         ELSE [r EXCEPT !.pc = "resolved", !.result = reply]

waitTillPausedStep_emptyIsResult(r, reply) ==
    IF reply \in Errors
    THEN [r EXCEPT !.pc = "rejected", !.result = reply]
    ELSE [r EXCEPT !.pc = "resolved", !.result = reply]

waitTillPausedStep_retryOnError(r, reply) ==
    IF reply \in Errors \/ reply = ""
    THEN wait(r)
    ELSE [r EXCEPT !.pc = "resolved", !.result = reply]

\* MLRuntime.waitTillPaused after `await this.wait()` has settled with
\* reply: a failure is rethrown, "" recurses into waitTillPaused() (whose
\* first act is the next wait()), anything else is returned
waitTillPausedStep(r, reply) ==
    IF reply \in Errors
    THEN [r EXCEPT !.pc = "rejected", !.result = reply]
    ELSE IF reply = ""
         THEN wait(r)
         ELSE [r EXCEPT !.pc = "resolved", !.result = reply]

\* the caller invokes waitTillPaused(): the first wait() is issued at once
waitTillPaused(w) ==
    /\ dialect = "JS"
    /\ waiters[w].pc = "idle"
    /\ waiters' = [waiters EXCEPT ![w] = wait([@ EXCEPT !.pc = "awaiting"])]
    /\ UNCHANGED <<runtimeVars, terminated, bpVars, clientVars>>

\* a wait() call in flight settles and the suspended flow continues; the
\* remote engine answers "" only while the invocation may poll again
WaitSettled(w, reply) ==
    /\ dialect = "JS"
    /\ waiters[w].pending > 0
    /\ reply = "" => waiters[w].calls < MaxPolls
    /\ LET got == [waiters[w] EXCEPT !.pending = @ - 1, !.replies = Append(@, reply)]
       IN  waiters' = [waiters EXCEPT ![w] =
                          IF got.pc = "awaiting" THEN waitTillPausedStep(got, reply) ELSE got]
    /\ UNCHANGED <<runtimeVars, terminated, bpVars, clientVars>>

WaitNext ==
    \/ \E w \in 1 .. MaxWaiters : waitTillPaused(w)
    \/ \E w \in 1 .. MaxWaiters, reply \in WaitReplies : WaitSettled(w, reply)

SpecWait == Init /\ [][WaitNext]_vars

\* every wait() call returns (the request carries time-out=5, the server-side
\* timeout), and the engine answers "" no more than MaxPolls - 1 times in a row
WaitFairness ==
    \A w \in 1 .. MaxWaiters :
        WF_vars(\E reply \in WaitReplies : WaitSettled(w, reply))

SpecWaitFair == Init /\ [][WaitNext]_vars /\ WaitFairness

\* polling while the runtime is torn down: waitTillPaused next to
\* terminate(), its completion, and setRunTimeState
TeardownNext ==
    \/ \E w \in 1 .. MaxWaiters : waitTillPaused(w)
    \/ \E w \in 1 .. MaxWaiters, reply \in WaitReplies : WaitSettled(w, reply)
    \/ ML_terminate
    \/ \E s \in SettableStates : setRunTimeState(s)
    \/ \E c \in inflight, ok \in BOOLEAN : ControlSettled(c, ok)

SpecTeardown == Init /\ [][TeardownNext]_vars

\* the replies an invocation has received: k empty payloads, then `final`
EmptiesThen(r, final) ==
    /\ Len(r.replies) >= 1
    /\ r.replies[Len(r.replies)] \in final
    /\ \A i \in 1 .. Len(r.replies) - 1 : r.replies[i] = ""

\* C6: for every k, k empty payloads followed by a non-empty payload P make
\* waitTillPaused() issue exactly k+1 wait() calls, never two at a time, and
\* resolve with P; after k empty payloads alone it is still polling (call
\* k+1 is in flight), so an empty payload is never a failure.
C6_PollsUntilPayload ==
    \A w \in 1 .. MaxWaiters :
        LET r == waiters[w] IN
        /\ r.pending <= 1
        /\ EmptiesThen(r, Payloads) =>
              /\ r.pc = "resolved"
              /\ r.result = r.replies[Len(r.replies)]
              /\ r.calls = Len(r.replies)
              /\ r.pending = 0
        /\ EmptiesThen(r, {""}) =>
              /\ r.pc = "awaiting"
              /\ r.calls = Len(r.replies) + 1
              /\ r.pending = 1

\* MaxPolls - 1 empty payloads, then a payload: resolved after MaxPolls polls
C6_Witness ==
    \E w \in 1 .. MaxWaiters :
        /\ waiters[w].pc = "resolved"
        /\ Len(waiters[w].replies) = MaxPolls
        /\ waiters[w].calls = MaxPolls

\* C7: when a wait() call fails, after any number of empty payloads,
\* waitTillPaused() fails with that same error and no further wait() call
\* is issued.
C7_WaitFailurePropagates ==
    \A w \in 1 .. MaxWaiters :
        LET r == waiters[w] IN
        EmptiesThen(r, Errors) =>
            /\ r.pc = "rejected"
            /\ r.result = r.replies[Len(r.replies)]
            /\ r.calls = Len(r.replies)
            /\ r.pending = 0

C7_Witness ==
    \E w \in 1 .. MaxWaiters :
        /\ waiters[w].pc = "rejected"
        /\ Len(waiters[w].replies) >= 2
        /\ waiters[w].result = "e2"

\* ================================================= breakpoints (XqyRuntime)
\* One breakpoint object `location`; ops[i] is the i-th invocation made on it:
\*   kind    "break" (setBreakPoint) or "clear" (removeBreakPoint)
\*   pc      "lookup": its dbg:line call is in flight; "act": its dbg:break /
\*           dbg:clear call is in flight and its promise waits for it;
\*           "resolved" / "rejected": the promise it returned has settled
\*   lookup  the fate of its dbg:line call: "none", "pending", "ok", "failed"
\*           (transport failure) or "threw" (its response could not be read)
\*   got     the value the lookup returned; before / after: location.expr just
\*           before and just after the lookup's response was handled

BpKinds == {"break", "clear"}

Op(kind, pc, lookup) ==
    [kind |-> kind, pc |-> pc, lookup |-> lookup,
     got |-> Undefined, before |-> Undefined, after |-> Undefined]

BpCall(i, kind, id) == [op |-> i, kind |-> kind, id |-> id]

Pending(i) == ops[i].pc \in {"lookup", "act"}

\* !location.expr : undefined and 0 are both falsy
Unresolved(e) == e = Undefined \/ e[1] = 0

\* setBreakPoint(location) / removeBreakPoint(location), up to the return of
\* the promise: either findBreakPointExpr issues dbg:line, or dbg:break /
\* dbg:clear is sent with location.expr
BpInvoke(kind) ==
    /\ dialect = "XQY"
    /\ Len(ops) < MaxOps
    /\ overlapped' = (overlapped \/ \E i \in 1 .. Len(ops) : Pending(i))
    /\ IF Unresolved(expr)
       THEN /\ nLookups' = nLookups + 1
            /\ ops' = Append(ops, Op(kind, "lookup", "pending"))
            /\ UNCHANGED bpCalls
       ELSE /\ bpCalls' = Append(bpCalls, BpCall(Len(ops) + 1, kind, expr))
            /\ ops' = Append(ops, Op(kind, "act", "none"))
            /\ UNCHANGED nLookups
    /\ issued' = Append(issued, Len(ops) + 1)
    /\ UNCHANGED <<runtimeVars, waitVars, clientVars, expr, bpSettled, remoteFailed, bpFailed>>

setBreakPoint == BpInvoke("break")

removeBreakPoint == BpInvoke("clear")

\* a plausible slip of the lookup's fulfill path: dbg:break / dbg:clear is
\* sent with location.expr as it was when the operation was invoked
LookupFulfill_staleId(i, fulfill) ==
    /\ i \in 1 .. Len(ops) /\ ops[i].pc = "lookup"
    /\ IF ValueFirstItem(fulfill) # <<>>
       THEN /\ expr' = ValueFirstItem(fulfill)
            /\ bpCalls' = Append(bpCalls, BpCall(i, ops[i].kind, Undefined))
            /\ issued' = Append(issued, i)
            /\ ops' = [ops EXCEPT ![i] =
                          [@ EXCEPT !.pc = "resolved", !.lookup = "ok",
                                    !.got = ValueFirstItem(fulfill),
                                    !.before = expr, !.after = ValueFirstItem(fulfill)]]
       ELSE /\ ops' = [ops EXCEPT ![i] =
                          [@ EXCEPT !.pc = "rejected", !.lookup = "threw",
                                    !.before = expr, !.after = expr]]
            /\ UNCHANGED <<expr, bpCalls, issued>>
    /\ UNCHANGED <<runtimeVars, waitVars, clientVars, nLookups, bpSettled, overlapped, remoteFailed, bpFailed>>

\* the dbg:line call of ops[i] succeeds: findBreakPointExpr's callback stores
\* fulfill['value'][0] in location.expr and returns it, and the .then callback
\* sends dbg:break / dbg:clear with the returned value without returning that
\* call's promise, so the promise of the operation resolves here. A TypeError
\* thrown by the read rejects the promise before anything is stored or sent
LookupFulfill(i, fulfill) ==
    /\ i \in 1 .. Len(ops) /\ ops[i].pc = "lookup"
    /\ IF ValueFirstItem(fulfill) # <<>>
       THEN /\ expr' = ValueFirstItem(fulfill)
            /\ bpCalls' = Append(bpCalls, BpCall(i, ops[i].kind, ValueFirstItem(fulfill)))
            /\ issued' = Append(issued, i)
            /\ ops' = [ops EXCEPT ![i] =
                          [@ EXCEPT !.pc = "resolved", !.lookup = "ok",
                                    !.got = ValueFirstItem(fulfill),
                                    !.before = expr, !.after = ValueFirstItem(fulfill)]]
       ELSE /\ ops' = [ops EXCEPT ![i] =
                          [@ EXCEPT !.pc = "rejected", !.lookup = "threw",
                                    !.before = expr, !.after = expr]]
            /\ UNCHANGED <<expr, bpCalls, issued>>
    /\ UNCHANGED <<runtimeVars, waitVars, clientVars, nLookups, bpSettled, overlapped, remoteFailed, bpFailed>>

\* the dbg:line call of ops[i] fails: findBreakPointExpr has no error
\* callback, the rejection skips .then and reaches the caller
LookupError(i) ==
    /\ i \in 1 .. Len(ops) /\ ops[i].pc = "lookup"
    /\ ops' = [ops EXCEPT ![i] = [@ EXCEPT !.pc = "rejected", !.lookup = "failed",
                                     !.before = expr, !.after = expr]]
    /\ remoteFailed' = TRUE
    /\ UNCHANGED <<runtimeVars, waitVars, clientVars, expr, nLookups, bpCalls, bpSettled, overlapped,
                   bpFailed, issued>>

\* the j-th dbg:break / dbg:clear call settles: both callbacks only log, so
\* an operation waiting for it (resolved path) resolves whatever the outcome
BpCallSettled(j, ok) ==
    /\ j \in (1 .. Len(bpCalls)) \ bpSettled
    /\ bpSettled' = bpSettled \cup {j}
    /\ remoteFailed' = (remoteFailed \/ ~ok)
    /\ bpFailed' = IF ok THEN bpFailed ELSE bpFailed \cup {j}
    /\ ops' = [ops EXCEPT ![bpCalls[j].op] =
                  IF @.pc = "act" THEN [@ EXCEPT !.pc = "resolved"] ELSE @]
    /\ UNCHANGED <<runtimeVars, waitVars, clientVars, expr, nLookups, bpCalls, overlapped, issued>>

BpNext ==
    \/ setBreakPoint
    \/ removeBreakPoint
    \/ \E i \in 1 .. MaxOps, shape \in Shapes, v \in ExprIds :
          LookupFulfill(i, Reply(shape, v))
    \/ \E i \in 1 .. MaxOps : LookupError(i)
    \/ \E j \in 1 .. MaxOps, ok \in BOOLEAN : BpCallSettled(j, ok)

SpecBp == Init /\ [][BpNext]_vars

CallsOf(i) == {j \in 1 .. Len(bpCalls) : bpCalls[j].op = i}

\* C8: n >= 1 operations on the breakpoint, each awaited before the next is
\* invoked and every remote call succeeding, issue exactly one lookup call
\* and exactly n set/clear calls, whatever id the lookup returns.
C8_OneLookupForNOps ==
    (/\ Len(ops) >= 1
     /\ ~overlapped
     /\ ~remoteFailed
     /\ \A i \in 1 .. Len(ops) : ops[i].pc = "resolved")
        => (nLookups = 1 /\ Len(bpCalls) = Len(ops))

\* C9: over any interleaving of invocations on the breakpoint at most one
\* lookup call is issued, and the handling of a lookup response never
\* replaces an id that was already resolved.
C9_ResolvedAtMostOnce ==
    /\ nLookups <= 1
    /\ \A i \in 1 .. Len(ops) :
          (ops[i].lookup = "ok" /\ ops[i].before # Undefined) => ops[i].after = ops[i].before

\* C10: an operation that has to look the id up issues no set/clear call
\* while its lookup is in flight; when the lookup succeeds it issues exactly
\* one, carrying the id the lookup returned, which is then the id cached on
\* the breakpoint; when the lookup fails it issues none, leaves
\* location.expr as it was, and its promise is rejected.
C10_ResolveThenAct ==
    \A i \in 1 .. Len(ops) :
        LET o == ops[i] IN
        /\ o.lookup = "pending" => (o.pc = "lookup" /\ CallsOf(i) = {})
        /\ o.lookup = "ok" =>
              /\ o.pc = "resolved"
              /\ Cardinality(CallsOf(i)) = 1
              /\ \A j \in CallsOf(i) : bpCalls[j].id = o.got /\ bpCalls[j].kind = o.kind
              /\ o.after = o.got
        /\ o.lookup \in {"failed", "threw"} =>
              /\ o.pc = "rejected"
              /\ CallsOf(i) = {}
              /\ o.after = o.before

\* both cases of C10 have happened on the breakpoint: a failed lookup that
\* left it unresolved, then a lookup whose id was cached and sent
C10_Witness ==
    \E i, k \in 1 .. Len(ops) :
        /\ i < k
        /\ ops[i].lookup = "failed" /\ ops[i].before = Undefined /\ CallsOf(i) = {}
        /\ ops[k].lookup = "ok" /\ ops[k].before = Undefined
        /\ expr = ops[k].got /\ expr = <<MaxExprId>>
        /\ \E j \in CallsOf(k) : bpCalls[j].id = expr

\* ------------------------------------- properties of the control operations

ControlOps == {"resume", "stepOver", "stepInto", "stepOut", "disable"}

KindOf(op) ==
    CASE op = "resume" -> "resume"
      [] op = "stepOver" -> "step-over"
      [] op = "stepInto" -> "step-into"
      [] op = "stepOut" -> "step-out"
      [] op = "disable" -> "disable"

\* C13: in both dialects resume, stepOver, stepInto, stepOut and disable
\* each issue exactly one remote call, addressed to the session id current
\* at the invocation, and neither the invocation nor the settling of that
\* call (success or failure) changes the local state or the session id.
C13_ControlFrame ==
    [][ /\ last'.op \in ControlOps =>
            /\ nCalls' = nCalls + 1
            /\ inflight' = inflight \cup
                   {[id |-> nCalls + 1, kind |-> KindOf(last'.op), target |-> rid]}
            /\ runTimeState' = runTimeState
            /\ rid' = rid
        /\ last'.op \in {"resumeSettled", "controlSettled"} =>
            /\ nCalls' = nCalls
            /\ runTimeState' = runTimeState
            /\ rid' = rid ]_vars

C13_Witness ==
    /\ last.op = "controlSettled" /\ ~last.ok
    /\ runTimeState = "attached" /\ rid = "r2"
    /\ \E c \in inflight : c.kind = "disable" /\ c.target = "r2"
    /\ \E c \in inflight : c.kind = "step-over" /\ c.target = ""

\* C11: a transport failure is never swallowed: when a remote call issued by
\* setBreakPoint/removeBreakPoint fails (its lookup, or its dbg:break /
\* dbg:clear call), the promise the operation returned is rejected, not
\* resolved.
C11_FailureReachesCaller ==
    \A i \in 1 .. Len(ops) :
        (ops[i].lookup = "failed" \/ CallsOf(i) \cap bpFailed # {})
            => ops[i].pc = "rejected"

\* C12: remote calls are issued in the order the operations were invoked:
\* every call of an earlier operation precedes every call of a later one,
\* also when the later one was invoked without awaiting the earlier.
C12_CallsInInvocationOrder ==
    \A p, q \in 1 .. Len(issued) : p < q => issued[p] <= issued[q]

\* ===================================================== server discovery

\* the servers the remote engine can know, in the order xdmp:servers()
\* lists them; a server's id is its position; port 0 is a server without a
\* port (a falsy port)
ServerTable ==
    << [name |-> "Admin", port |-> 8001],
       [name |-> "app-self", port |-> 8000],
       [name |-> "app-a", port |-> 8010],
       [name |-> "task", port |-> 0] >>

ServerIds == DOMAIN ServerTable

\* this.params.port and this.params.host of the query-role client
OwnPort == 8000

Host == "host"

\* what the engine knows and has debug-connected when a query is evaluated
EngineStates ==
    {[known |-> k, connected |-> c] : k \in SUBSET ServerIds, c \in SUBSET ServerIds}

ReservedNames == {"Admin", "Manage", "HealthCheck", "App-Services"}

\* the ids in S as a sequence, in the order of the server table
IdSeq(S) ==
    LET In(i) == i \in S
    IN  SelectSeq([i \in ServerIds |-> i], In)

\* a selection that forgets the reserved names
Connectable_keepsReserved(e, i) ==
    /\ i \in e.known
    /\ i \notin e.connected
    /\ ServerTable[i].port # OwnPort

\* the three tests of buildListServersForConnectQuery on one server of
\* xdmp:servers()
Connectable(e, i) ==
    /\ i \in e.known
    /\ i \notin e.connected
    /\ ServerTable[i].name \notin ReservedNames
    /\ ServerTable[i].port # OwnPort

\* buildListServersForConnectQuery, evaluated: the sequence of
\* {id, name, port} maps of the servers that pass
ListServersForConnect(e) ==
    LET pass == IdSeq({i \in ServerIds : Connectable(e, i)})
    IN  [k \in 1 .. Len(pass) |->
            [id |-> pass[k], name |-> ServerTable[pass[k]].name,
             port |-> ServerTable[pass[k]].port]]

\* xdmp:to-json of that sequence, as appServers[0]['value'] holds it:
\* nothing, one object, or an array of objects
ToJson(maps) ==
    IF Len(maps) = 0 THEN [kind |-> "null", value |-> <<>>]
    ELSE IF Len(maps) = 1 THEN [kind |-> "object", value |-> <<maps[1]>>]
    ELSE [kind |-> "array", value |-> maps]

\* buildAppServerChoicesFromServerList: [].concat(value || []), then one
\* label/description/detail triple per server
buildAppServerChoicesFromServerList(json) ==
    LET servers == IF json.kind = "null" THEN <<>> ELSE json.value
    IN  [k \in 1 .. Len(servers) |->
            [label |-> servers[k].name,
             description |-> servers[k].id,
             detail |-> servers[k].name \o " on " \o Host \o ":" \o
                        (IF servers[k].port = 0 THEN "(none)"
                         ELSE ToString(servers[k].port))]]

\* what the promise of getAppServerListForJs resolves with: the choices built
\* from the answer, or the empty list when the dispatch failed
AppServerList(ok, e) ==
    IF ok THEN buildAppServerChoicesFromServerList(ToJson(ListServersForConnect(e)))
    ELSE <<>>

\* ---- getAppServerListForJs, called on its own with the connect query
getAppServerListForJs ==
    /\ lPc = "idle"
    /\ lPc' = "query"
    /\ UNCHANGED <<engine, lResult, runtimeVars, waitVars, bpVars, discVars, confVars>>

AppServerListSettled(ok, e) ==
    /\ lPc = "query"
    /\ lPc' = IF ok THEN "resolved" ELSE "resolvedOnError"
    /\ engine' = e
    /\ lResult' = AppServerList(ok, e)
    /\ UNCHANGED <<runtimeVars, waitVars, bpVars, discVars, confVars>>

ListNext ==
    \/ getAppServerListForJs
    \/ \E ok \in BOOLEAN, e \in EngineStates : AppServerListSettled(ok, e)

SpecList == Init /\ [][ListNext]_vars

\* ---- getFilteredListOfJsAppServers, filterJsServerByConnectedStatus and
\* ---- getConnectedServers

\* requiredResponse values, and what a probe can come back with: a response
\* text, a failure carrying body.errorResponse, a failure without a body
Markers == {"true", "false"}

ProbeOutcomes == {"true", "false", "errBody", "errNoBody"}

\* the lists dbg:connected() can answer: server ids, no more than MaxSessions
SessionLists ==
    {IdSeq(S) : S \in {T \in SUBSET ServerIds : Cardinality(T) <= MaxSessions}}

Entry(tag, name) == [tag |-> tag, name |-> name]

\* 'JS:' + quickPickItem.label for each connected dialect-B server
JsEntries(fc) == [k \in 1 .. Len(fc) |-> Entry("JS", fc[k].label)]

AllSettled(f) == \A k \in DOMAIN f : f[k] # "pending"

\* a tail that calls the callback before the JS entries are pushed
Finish_callbackBeforeJs(cs) ==
    /\ connectedServers' = cs \o JsEntries(filteredChoices)
    /\ callbacks' = IF hasCallback THEN Append(callbacks, cs) ELSE callbacks
    /\ dResult' = connectedServers'
    /\ dPc' = "resolved"

\* the tail of the dbg:connected() callback, after await Promise.all:
\* the JS entries are pushed, the callback is called, the list is returned
Finish(cs) ==
    /\ connectedServers' = cs \o JsEntries(filteredChoices)
    /\ callbacks' = IF hasCallback THEN Append(callbacks, connectedServers')
                    ELSE callbacks
    /\ dResult' = connectedServers'
    /\ dPc' = "resolved"

\* filterJsServerByConnectedStatus has returned fc: the function invoked
\* returns it, or getConnectedServers goes on to issue dbg:connected()
AfterFilter(fc) ==
    IF dEntry = "getFilteredListOfJsAppServers"
    THEN /\ dPc' = "resolved"
         /\ dResult' = fc
         /\ UNCHANGED connectedIssued
    ELSE /\ dPc' = "connected"
         /\ connectedIssued' = TRUE
         /\ UNCHANGED dResult

\* getFilteredListOfJsAppServers(clientFactory, requiredResponse): builds the
\* connect query and dispatches it through getAppServerListForJs
getFilteredListOfJsAppServers(m) ==
    /\ dPc = "idle"
    /\ dEntry' = "getFilteredListOfJsAppServers"
    /\ marker' = m
    /\ dPc' = "list"
    /\ UNCHANGED <<hasCallback, dListOk, choices, probes, filteredChoices, connectedIssued,
                   dFailure, items, lookups, connectedServers, callbacks, dResult>>
    /\ UNCHANGED <<runtimeVars, waitVars, bpVars, listVars, confVars>>

\* getConnectedServers: awaits getFilteredListOfJsAppServers(clientFactory,
\* 'true') before anything else
getConnectedServers(cb) ==
    /\ dPc = "idle"
    /\ dEntry' = "getConnectedServers"
    /\ marker' = "true"
    /\ hasCallback' = cb
    /\ dPc' = "list"
    /\ UNCHANGED <<dListOk, choices, probes, filteredChoices, connectedIssued,
                   dFailure, items, lookups, connectedServers, callbacks, dResult>>
    /\ UNCHANGED <<runtimeVars, waitVars, bpVars, listVars, confVars>>

\* a listing step that lets the dispatch failure through
ListSettled_rejectsOnFailure(ok, e) ==
    /\ dPc = "list"
    /\ dListOk' = IF ok THEN "ok" ELSE "failed"
    /\ choices' = AppServerList(ok, e)
    /\ probes' = [k \in 1 .. Len(choices') |-> "pending"]
    /\ IF ~ok
       THEN /\ dPc' = "rejected"
            /\ UNCHANGED <<connectedIssued, dResult>>
       ELSE IF choices' = <<>>
       THEN AfterFilter(<<>>)
       ELSE /\ dPc' = "probe"
            /\ UNCHANGED <<connectedIssued, dResult>>
    /\ UNCHANGED <<dEntry, marker, hasCallback, filteredChoices, dFailure, items, lookups,
                   connectedServers, callbacks>>
    /\ UNCHANGED <<runtimeVars, waitVars, bpVars, listVars, confVars>>

\* the listing query settles: getAppServerListForJs resolves,
\* filterJsServerByConnectedStatus issues one probe per choice in its
\* forEach and awaits Promise.all of them; with no choice there is nothing
\* to await
ListSettled(ok, e) ==
    /\ dPc = "list"
    /\ dListOk' = IF ok THEN "ok" ELSE "failed"
    /\ choices' = AppServerList(ok, e)
    /\ probes' = [k \in 1 .. Len(choices') |-> "pending"]
    /\ IF choices' = <<>>
       THEN AfterFilter(<<>>)
       ELSE /\ dPc' = "probe"
            /\ UNCHANGED <<connectedIssued, dResult>>
    /\ UNCHANGED <<dEntry, marker, hasCallback, filteredChoices, dFailure, items, lookups,
                   connectedServers, callbacks>>
    /\ UNCHANGED <<runtimeVars, waitVars, bpVars, listVars, confVars>>

\* a probe step that keeps every choice whose probe answered
ProbeSettled_keepsAnswered(k, r) ==
    /\ k \in DOMAIN probes /\ probes[k] = "pending"
    /\ probes' = [probes EXCEPT ![k] = r]
    /\ filteredChoices' = IF r \in Markers THEN Append(filteredChoices, choices[k])
                          ELSE filteredChoices
    /\ IF dPc = "probe" /\ r = "errNoBody"
       THEN /\ dPc' = "rejected"
            /\ dFailure' = "probe"
            /\ UNCHANGED <<connectedIssued, dResult>>
       ELSE IF dPc = "probe" /\ AllSettled(probes')
       THEN /\ AfterFilter(filteredChoices')
            /\ UNCHANGED dFailure
       ELSE UNCHANGED <<dPc, dFailure, connectedIssued, dResult>>
    /\ UNCHANGED <<dEntry, marker, hasCallback, dListOk, choices, items, lookups,
                   connectedServers, callbacks>>
    /\ UNCHANGED <<runtimeVars, waitVars, bpVars, listVars, confVars>>

\* the probe of choice k settles: .result pushes the choice when the
\* response equals requiredResponse; .catch logs error.body.errorResponse,
\* which throws when the error has no body and so rejects the probe's
\* promise, Promise.all, and the functions awaiting it
ProbeSettled(k, r) ==
    /\ k \in DOMAIN probes /\ probes[k] = "pending"
    /\ probes' = [probes EXCEPT ![k] = r]
    /\ filteredChoices' = IF r = marker THEN Append(filteredChoices, choices[k])
                          ELSE filteredChoices
    /\ IF dPc = "probe" /\ r = "errNoBody"
       THEN /\ dPc' = "rejected"
            /\ dFailure' = "probe"
            /\ UNCHANGED <<connectedIssued, dResult>>
       ELSE IF dPc = "probe" /\ AllSettled(probes')
       THEN /\ AfterFilter(filteredChoices')
            /\ UNCHANGED dFailure
       ELSE UNCHANGED <<dPc, dFailure, connectedIssued, dResult>>
    /\ UNCHANGED <<dEntry, marker, hasCallback, dListOk, choices, items, lookups,
                   connectedServers, callbacks>>
    /\ UNCHANGED <<runtimeVars, waitVars, bpVars, listVars, confVars>>

\* dbg:connected() settles: the error callback rethrows; the result callback
\* issues one xdmp:server-name lookup per item in its forEach and awaits
\* Promise.all of them
ConnectedSettled(ok, its) ==
    /\ dPc = "connected"
    /\ IF ~ok
       THEN /\ dPc' = "rejected"
            /\ dFailure' = "query"
            /\ UNCHANGED <<items, lookups, connectedServers, callbacks, dResult>>
       ELSE /\ items' = its
            /\ lookups' = [k \in 1 .. Len(its) |-> "pending"]
            /\ UNCHANGED dFailure
            /\ IF its = <<>>
               THEN Finish(<<>>)
               ELSE /\ dPc' = "names"
                    /\ UNCHANGED <<connectedServers, callbacks, dResult>>
    /\ UNCHANGED <<dEntry, marker, hasCallback, dListOk, choices, probes, filteredChoices,
                   connectedIssued>>
    /\ UNCHANGED <<runtimeVars, waitVars, bpVars, listVars, confVars>>

\* the name lookup of item k settles: the result callback pushes
\* 'XQY:' + result[0].value, the error callback returns []
LookupSettled(k, ok) ==
    /\ dPc = "names"
    /\ k \in DOMAIN lookups /\ lookups[k] = "pending"
    /\ lookups' = [lookups EXCEPT ![k] = IF ok THEN "ok" ELSE "failed"]
    /\ LET cs == IF ok THEN Append(connectedServers,
                                   Entry("XQY", ServerTable[items[k]].name))
                 ELSE connectedServers
       IN  IF AllSettled(lookups')
           THEN Finish(cs)
           ELSE /\ connectedServers' = cs
                /\ UNCHANGED <<dPc, callbacks, dResult>>
    /\ UNCHANGED <<dEntry, marker, hasCallback, dListOk, choices, probes, filteredChoices,
                   connectedIssued, dFailure, items>>
    /\ UNCHANGED <<runtimeVars, waitVars, bpVars, listVars, confVars>>

DiscNext ==
    \/ \E m \in Markers : getFilteredListOfJsAppServers(m)
    \/ \E cb \in BOOLEAN : getConnectedServers(cb)
    \/ \E ok \in BOOLEAN, e \in EngineStates : ListSettled(ok, e)
    \/ \E k \in DOMAIN probes, r \in ProbeOutcomes : ProbeSettled(k, r)
    \/ \E ok \in BOOLEAN, its \in SessionLists : ConnectedSettled(ok, its)
    \/ \E k \in DOMAIN lookups, ok \in BOOLEAN : LookupSettled(k, ok)

SpecDiscovery == Init /\ [][DiscNext]_vars

\* ------------------------------------------ properties of the discovery

Range(s) == {s[k] : k \in DOMAIN s}

\* the choices whose probe answered the required response
Matching == {choices[k] : k \in {j \in DOMAIN probes : probes[j] = marker}}

\* the names of the sessions whose lookup succeeded
Named == {ServerTable[items[k]].name : k \in {j \in DOMAIN lookups : lookups[j] = "ok"}}

\* filterJsServerByConnectedStatus has returned its list
FilterReturned ==
    \/ dPc \in {"connected", "names", "resolved"}
    \/ dPc = "rejected" /\ dFailure = "query"

\* C14: one failing per-candidate call (a name lookup, or a probe failing in
\* any way, a failure without a response body included) does not fail the
\* enumeration: it is rejected only when the dbg:connected() query itself
\* failed, and when it resolves it holds the entries of every candidate that
\* did not fail.
C14_OneFailureTolerated ==
    /\ dPc = "rejected" => dFailure = "query"
    /\ dPc = "resolved" /\ dEntry = "getFilteredListOfJsAppServers" =>
           Matching \subseteq Range(dResult)
    /\ dPc = "resolved" /\ dEntry = "getConnectedServers" =>
           /\ \A n \in Named : Entry("XQY", n) \in Range(dResult)
           /\ \A c \in Matching : Entry("JS", c.label) \in Range(dResult)

\* C15: the list filterJsServerByConnectedStatus returns holds exactly the
\* choices whose probe succeeded with the required response: none whose
\* response differs or whose probe failed, none missing, none twice.
C15_ExactlyTheMatching ==
    FilterReturned =>
        /\ Range(filteredChoices) = Matching
        /\ Len(filteredChoices) = Cardinality(Matching)
        /\ (dEntry = "getFilteredListOfJsAppServers" => dResult = filteredChoices)

C15_Witness ==
    /\ dEntry = "getFilteredListOfJsAppServers" /\ dPc = "resolved"
    /\ marker = "false"
    /\ Len(choices) = 2
    /\ probes = <<"errBody", "false">>
    /\ dResult = <<choices[2]>>

\* C16: in both fan-outs every per-candidate call has been issued when the
\* batch is awaited, and the operation goes on (to its next call, or to its
\* result, or to its failure) only after all of them have settled.
C16_BatchIssuedThenAwaited ==
    /\ dPc = "probe" => Len(probes) = Len(choices)
    /\ dPc = "names" => Len(lookups) = Len(items)
    /\ dPc \in {"connected", "names", "resolved", "rejected"} => AllSettled(probes)
    /\ dPc = "resolved" => AllSettled(lookups)

\* C17: the two enumerations of getConnectedServers run concurrently: the
\* dbg:connected() query has been issued while the dialect-B discovery (the
\* listing query and the probes) is still under way.
C17_ConnectedQueryNotDelayed ==
    (dEntry = "getConnectedServers" /\ dPc \in {"list", "probe"}) => connectedIssued

\* C18: when getConnectedServers succeeds its list holds one XQY entry per
\* session whose name lookup succeeded, one JS entry per connected dialect-B
\* server, and nothing else; a supplied callback has been called exactly
\* once, with that same list, and is never called before every name lookup
\* has settled.
C18_MergedListAndCallback ==
    /\ callbacks # <<>> =>
           dPc = "resolved" /\ dEntry = "getConnectedServers" /\ AllSettled(lookups)
    /\ dPc = "resolved" /\ dEntry = "getConnectedServers" =>
           /\ Range(dResult) = {Entry("XQY", n) : n \in Named} \cup
                               {Entry("JS", c.label) : c \in Matching}
           /\ Len(dResult) = Cardinality(Named) + Cardinality(Matching)
           /\ AllSettled(lookups)
           /\ callbacks = IF hasCallback THEN <<dResult>> ELSE <<>>

C18_Witness ==
    /\ dEntry = "getConnectedServers" /\ dPc = "resolved" /\ hasCallback
    /\ lookups = <<"failed", "ok">>
    /\ Len(filteredChoices) = 1
    /\ Len(dResult) = 2
    /\ callbacks = <<dResult>>

\* C19: when the dispatch of the listing query fails, getAppServerListForJs
\* resolves with the empty list, getFilteredListOfJsAppServers issues no
\* probe and resolves with the empty list.
C19_ListFailureIsEmpty ==
    dListOk = "failed" =>
        /\ choices = <<>>
        /\ probes = <<>>
        /\ filteredChoices = <<>>
        /\ dFailure # "probe"
        /\ dEntry = "getFilteredListOfJsAppServers" => dPc = "resolved" /\ dResult = <<>>
        /\ dEntry = "getConnectedServers" => connectedIssued

C19_Witness ==
    /\ dListOk = "failed"
    /\ dEntry = "getFilteredListOfJsAppServers"
    /\ dPc = "resolved"
    /\ dResult = <<>>

\* ------------------------------------------- properties of the listing

\* C20: for any set of servers known to the engine, the list resolved from
\* the connect query holds exactly the known servers that are not
\* debug-connected, not named Admin, Manage, HealthCheck or App-Services, and
\* not on the caller's own port, and holds one label/description/detail
\* triple for each of them.
C20_ExactlyTheConnectable ==
    lPc = "resolved" =>
        LET eligible == {i \in engine.known :
                            /\ i \notin engine.connected
                            /\ ServerTable[i].name \notin
                                   {"Admin", "Manage", "HealthCheck", "App-Services"}
                            /\ ServerTable[i].port # OwnPort}
        IN  /\ {lResult[k].description : k \in 1 .. Len(lResult)} = eligible
            /\ Len(lResult) = Cardinality(eligible)
            /\ \A k \in 1 .. Len(lResult) :
                  /\ DOMAIN lResult[k] = {"label", "description", "detail"}
                  /\ lResult[k].label = ServerTable[lResult[k].description].name

C20_Witness ==
    /\ lPc = "resolved"
    /\ engine.known = ServerIds
    /\ engine.connected = {4}
    /\ Len(lResult) = 1
    /\ lResult[1].label = "app-a"

\* ------------------------------- parameter objects and their context

\* new MlClientParameters(raw)
NewParams(raw) ==
    /\ ~hasP
    /\ hasP' = TRUE
    /\ rawP' = raw
    /\ params' = MlClientParameters(raw)
    /\ params0' = params'
    /\ UNCHANGED <<rawQ, hasQ, other, ctx>>
    /\ UNCHANGED <<runtimeVars, waitVars, bpVars, listVars, discVars, rowsVars, factoryVars>>

\* a second new MlClientParameters, from the same bag or from one that
\* differs in the key k
NewOther(k, v) ==
    /\ hasP /\ ~hasQ
    /\ hasQ' = TRUE
    /\ rawQ' = [rawP EXCEPT ![k] = v]
    /\ other' = MlClientParameters(rawQ')
    /\ UNCHANGED <<rawP, hasP, params, params0, ctx>>
    /\ UNCHANGED <<runtimeVars, waitVars, bpVars, listVars, discVars, rowsVars, factoryVars>>

\* new ClientContext(params)
NewClientContext(readable) ==
    /\ hasP /\ ctx.state = "none"
    /\ params' = ClientContext(params, readable).params
    /\ ctx' = ClientContext(params, readable).ctx
    /\ UNCHANGED <<rawP, hasP, params0, rawQ, hasQ, other>>
    /\ UNCHANGED <<runtimeVars, waitVars, bpVars, listVars, discVars, rowsVars, factoryVars>>

\* ClientContext.hasSameParamsAs
hasSameParamsAs(newParams) == sameAs(params, newParams)

ParamNext ==
    \/ \E raw \in ParamRaws : NewParams(raw)
    \/ \E k \in RawKeys, v \in EditValues : NewOther(k, v)
    \/ \E readable \in BOOLEAN : NewClientContext(readable)

SpecParams == Init /\ [][ParamNext]_vars

\* ------------------------------------ properties of the parameter objects

Recognized == {"'DIGEST", "'BASIC", "'CLOUD"}

\* the fields sameAs is documented to compare
ComparedFields ==
    {"host", "port", "contentDb", "modulesDb", "user", "pwd", "authType", "apiKey",
     "accessTokenDuration", "ssl", "pathToCa", "rejectUnauthorized"}

C23_SameAsIsAnEquivalenceOnComparedFields ==
    /\ hasP => sameAs(params, params) /\ sameAs(params0, params0)
    /\ hasQ => sameAs(other, other)
    /\ hasP /\ hasQ =>
          /\ sameAs(params, other) <=> sameAs(other, params)
          /\ sameAs(params, other) <=> \A f \in ComparedFields : params[f] = other[f]

C23_Witness ==
    /\ hasP /\ hasQ
    /\ params.managePort # other.managePort
    /\ sameAs(params, other)
    /\ sameAs(other, params)

\* C24: two objects built from bags that both lack a port and that agree on
\* every other compared field are equal; an object whose port is
\* not-a-number is never equal to one whose port is a number.
C24_NotANumberPorts ==
    hasP /\ hasQ =>
        /\ (/\ rawP.port = Undef /\ rawQ.port = Undef
            /\ \A f \in ComparedFields \ {"port"} : params[f] = other[f])
               => sameAs(params, other) /\ sameAs(other, params)
        /\ (params.port = NaN /\ other.port # NaN)
               => ~sameAs(params, other) /\ ~sameAs(other, params)
        /\ (params.port # NaN /\ other.port = NaN)
               => ~sameAs(params, other) /\ ~sameAs(other, params)

C24_Witness ==
    /\ hasP /\ hasQ
    /\ rawP.port = Undef /\ rawQ.port = Undef
    /\ params.port = NaN /\ other.port = NaN
    /\ sameAs(params, other)

\* C28: a parameter object is immutable: whatever is done later, building a
\* ClientContext on it included, every field keeps the value the
\* constructor gave it.
C28_ParamsImmutable ==
    hasP => params = params0

\* C30: a ClientContext built from new MlClientParameters(R) answers
\* hasSameParamsAs(new MlClientParameters(R)) with true, for every raw bag R.
C30_ReusableForItsOwnConfiguration ==
    (ctx.state = "built" /\ hasQ /\ rawQ = rawP) => hasSameParamsAs(other)

\* ================================================================ sendRows

\* the characters of a query text, and the texts
Chars == {"{", "}", "0"}

QueryTexts == UNION {[1 .. n -> Chars] : n \in 0 .. MaxText}

Formats == {"json", "csv"}

\* actualQuery.startsWith('{')
StartsWithBrace(text) == Len(text) > 0 /\ text[1] = "{"

\* JSON.parse(text): over these characters "{}" is the empty object and "0"
\* the number 0; every other text is a syntax error whose message tells the
\* text apart
JsonParse(text) ==
    IF text = <<"{", "}">> THEN [ok |-> TRUE, value |-> "{}", message |-> <<>>]
    ELSE IF text = <<"0">> THEN [ok |-> TRUE, value |-> "0", message |-> <<>>]
    ELSE [ok |-> FALSE, value |-> Null, message |-> <<"SyntaxError", text>>]

\* what sendRows makes of a text: the remote call it issues, if any, and the
\* promise it returns without one
Outcome(pc, call, result) == [pc |-> pc, call |-> call, result |-> result]

EmptyRows(msg) == [columns |-> <<>>, rows |-> <<>>, preRequestError |-> msg]

\* a serialized path that lets the parse error out
sendRowsSerialized_rejects(text, format) ==
    LET parsed == JsonParse(text)
        jsonQuery == IF parsed.ok THEN parsed.value ELSE Null
    IN  IF Truthy(jsonQuery)
        THEN Outcome("sent", <<[queryType |-> "json", format |-> format,
                                query |-> jsonQuery]>>, EmptyRows(<<>>))
        ELSE Outcome("rejected", <<>>, EmptyRows(<<>>))

\* sendRowsSerialized: the text is parsed inside try/catch; a truthy value is
\* sent as a json query; otherwise the promise resolves at once with the
\* message of the caught error (reading .message of no error throws)
sendRowsSerialized(text, format) ==
    LET parsed == JsonParse(text)
        jsonQuery == IF parsed.ok THEN parsed.value ELSE Null
    IN  IF Truthy(jsonQuery)
        THEN Outcome("sent", <<[queryType |-> "json", format |-> format,
                                query |-> jsonQuery]>>, EmptyRows(<<>>))
        ELSE IF parsed.ok
        THEN Outcome("threw", <<>>, EmptyRows(<<>>))
        ELSE Outcome("resolved", <<>>, EmptyRows(parsed.message))

\* sendRows(dbClientContext, actualQuery, resultFormat)
sendRows(text, format) ==
    /\ rowsPc = "idle"
    /\ rowsText' = text
    /\ LET o == IF StartsWithBrace(text) THEN sendRowsSerialized(text, format)
                ELSE Outcome("sent", <<[queryType |-> "dsl", format |-> format,
                                        query |-> text]>>, EmptyRows(<<>>))
       IN  /\ rowsPc' = o.pc
           /\ rowsCall' = o.call
           /\ rowsResult' = o.result
    /\ UNCHANGED <<runtimeVars, waitVars, bpVars, listVars, discVars, paramVars, factoryVars>>

\* the rows.query call settles; its promise is the one sendRows returned
RowsSettled(ok) ==
    /\ rowsPc = "sent"
    /\ rowsPc' = IF ok THEN "resolved" ELSE "rejected"
    /\ rowsResult' = IF ok THEN [columns |-> <<"c">>, rows |-> <<"r">>,
                                 preRequestError |-> <<>>]
                     ELSE rowsResult
    /\ UNCHANGED <<rowsText, rowsCall>>
    /\ UNCHANGED <<runtimeVars, waitVars, bpVars, listVars, discVars, paramVars, factoryVars>>

RowsNext ==
    \/ \E text \in QueryTexts, format \in Formats : sendRows(text, format)
    \/ \E ok \in BOOLEAN : RowsSettled(ok)

SpecRows == Init /\ [][RowsNext]_vars

\* C21: query text that begins with '{' and is not valid JSON gives a promise
\* resolved with {columns: [], rows: [], preRequestError: <the parse error
\* message>}, without a throw, a rejection or a remote call; text that begins
\* with '{' and parses goes out as a json query, any other text as a dsl
\* query.
C21_MalformedJsonIsAnEmptyResult ==
    rowsPc # "idle" =>
        /\ rowsPc # "threw"
        /\ (StartsWithBrace(rowsText) /\ ~JsonParse(rowsText).ok) =>
              /\ rowsPc = "resolved"
              /\ rowsCall = <<>>
              /\ rowsResult = [columns |-> <<>>, rows |-> <<>>,
                               preRequestError |-> <<"SyntaxError", rowsText>>]
        /\ (StartsWithBrace(rowsText) /\ JsonParse(rowsText).ok) =>
              Len(rowsCall) = 1 /\ rowsCall[1].queryType = "json"
        /\ ~StartsWithBrace(rowsText) =>
              /\ Len(rowsCall) = 1
              /\ rowsCall[1].queryType = "dsl"
              /\ rowsCall[1].query = rowsText

C21_Witness ==
    /\ rowsPc = "resolved"
    /\ rowsText = <<"{", "0">>
    /\ rowsCall = <<>>
    /\ rowsResult.preRequestError = <<"SyntaxError", rowsText>>

\* ---------------------------------------------- role derivation in the factory

\* the raw bags a base factory is built from, with the keys the builders of
\* the factory use (restBasePath, contentDb, ...) and the basePath key
FactoryRaws ==
    {[EmptyBag EXCEPT !.host = "'h1", !.user = "'u1", !.password = "'pw1",
                      !.port = "8000", !.managePort = "8002", !.testPort = "8020",
                      !.testBasePath = "'/test", !.authType = a,
                      !.ssl = "true",
                      !.contentDb = c, !.modulesDb = m, !.restBasePath = rb,
                      !.basePath = bp, !.manageBasePath = mb, !.pathToCa = ca] :
        c \in {Undef, "'", "'Documents"},
        m \in {Undef, "'Modules"},
        rb \in {Undef, "'/rest"},
        bp \in {Undef, "'/base"},
        mb \in {Undef, "'/manage"},
        ca \in {Undef, "'/ca.pem"},
        a \in {"'DIGEST", "'BASIC", "'CLOUD"}}

\* the overrides: none, or one field
OverrideValue ==
    [EmptyBag EXCEPT !.host = "'h2", !.port = "8030", !.user = "'u2",
                     !.password = "'pw2", !.contentDb = "'Other",
                     !.modulesDb = "'OtherModules", !.ssl = "false",
                     !.pathToCa = "'/other.pem", !.rejectUnauthorized = "true"]

OverrideKeys == {k \in RawKeys : OverrideValue[k] # Undef}

OverrideBags ==
    {EmptyBag} \cup {[EmptyBag EXCEPT ![k] = OverrideValue[k]] : k \in OverrideKeys}

\* new ClientFactory(raw)
NewClientFactory(raw) ==
    /\ ~hasBase
    /\ hasBase' = TRUE
    /\ fRaw' = raw
    /\ base' = ClientFactory(raw)
    /\ UNCHANGED <<fOverrides, role, derived, conn, connParams, caReadable>>
    /\ UNCHANGED <<runtimeVars, waitVars, bpVars, listVars, discVars, paramVars, rowsVars>>

\* base.newRestClientParams(overrides), called by itself
RestClientParams(overrides) ==
    /\ hasBase /\ role = "none"
    /\ role' = "rest"
    /\ fOverrides' = overrides
    /\ derived' = newRestClientParams(base, overrides)
    /\ UNCHANGED <<fRaw, hasBase, base, conn, connParams, caReadable>>
    /\ UNCHANGED <<runtimeVars, waitVars, bpVars, listVars, discVars, paramVars, rowsVars>>

\* base.newManageClientParams(overrides), called by itself
ManageClientParams(overrides) ==
    /\ hasBase /\ role = "none"
    /\ role' = "manage"
    /\ fOverrides' = overrides
    /\ derived' = newManageClientParams(base, overrides)
    /\ UNCHANGED <<fRaw, hasBase, base, conn, connParams, caReadable>>
    /\ UNCHANGED <<runtimeVars, waitVars, bpVars, listVars, discVars, paramVars, rowsVars>>

\* base.newTestClientParams(overrides), called by itself
TestClientParams(overrides) ==
    /\ hasBase /\ role = "none"
    /\ role' = "test"
    /\ fOverrides' = overrides
    /\ derived' = newTestClientParams(base, overrides)
    /\ UNCHANGED <<fRaw, hasBase, base, conn, connParams, caReadable>>
    /\ UNCHANGED <<runtimeVars, waitVars, bpVars, listVars, discVars, paramVars, rowsVars>>

\* base.newMarklogicRestClient(overrides)
newMarklogicRestClient(overrides, readable) ==
    /\ hasBase /\ role = "none"
    /\ role' = "rest"
    /\ fOverrides' = overrides
    /\ derived' = newRestClientParams(base, overrides)
    /\ caReadable' = readable
    /\ conn' = ClientContext(toMlClientParameters(derived'), readable).ctx
    /\ connParams' = ClientContext(toMlClientParameters(derived'), readable).params
    /\ UNCHANGED <<fRaw, hasBase, base>>
    /\ UNCHANGED <<runtimeVars, waitVars, bpVars, listVars, discVars, paramVars, rowsVars>>

\* base.newMarklogicManageClient(overrides)
newMarklogicManageClient(overrides, readable) ==
    /\ hasBase /\ role = "none"
    /\ role' = "manage"
    /\ fOverrides' = overrides
    /\ derived' = newManageClientParams(base, overrides)
    /\ caReadable' = readable
    /\ conn' = ClientContext(toMlClientParameters(derived'), readable).ctx
    /\ connParams' = ClientContext(toMlClientParameters(derived'), readable).params
    /\ UNCHANGED <<fRaw, hasBase, base>>
    /\ UNCHANGED <<runtimeVars, waitVars, bpVars, listVars, discVars, paramVars, rowsVars>>

\* base.newMarklogicTestClient(overrides)
newMarklogicTestClient(overrides, readable) ==
    /\ hasBase /\ role = "none"
    /\ role' = "test"
    /\ fOverrides' = overrides
    /\ derived' = newTestClientParams(base, overrides)
    /\ caReadable' = readable
    /\ conn' = ClientContext(toMlClientParameters(derived'), readable).ctx
    /\ connParams' = ClientContext(toMlClientParameters(derived'), readable).params
    /\ UNCHANGED <<fRaw, hasBase, base>>
    /\ UNCHANGED <<runtimeVars, waitVars, bpVars, listVars, discVars, paramVars, rowsVars>>

FactoryNext ==
    \/ \E raw \in FactoryRaws : NewClientFactory(raw)
    \/ \E o \in OverrideBags : RestClientParams(o)
    \/ \E o \in OverrideBags : ManageClientParams(o)
    \/ \E o \in OverrideBags : TestClientParams(o)
    \/ \E o \in OverrideBags, readable \in BOOLEAN : newMarklogicRestClient(o, readable)
    \/ \E o \in OverrideBags, readable \in BOOLEAN : newMarklogicManageClient(o, readable)
    \/ \E o \in OverrideBags, readable \in BOOLEAN : newMarklogicTestClient(o, readable)

SpecFactory == Init /\ [][FactoryNext]_vars

\* a database name that names nothing: '' or null
EmptyName(v) == v \in {"'", Null}

\* C25: the parameters derived for the manage role and for the test role
\* without overrides, and the connections built from them, name no content
\* database and no modules database, whatever the base factory names.
C25_ManageAndTestNameNoDatabase ==
    (role \in {"manage", "test"} /\ fOverrides = EmptyBag) =>
        /\ EmptyName(derived.database)
        /\ EmptyName(derived.modulesDb)
        /\ conn.state # "none" =>
               /\ EmptyName(connParams.contentDb)
               /\ EmptyName(connParams.modulesDb)
        /\ conn.state = "built" => EmptyName(conn.client.database)

C25_Witness ==
    /\ role = "manage" /\ fOverrides = EmptyBag
    /\ base.database = "'Documents" /\ base.modulesDb = "'Modules"
    /\ conn.state = "built"
    /\ conn.client.database = Null
    /\ derived.modulesDb = "'"

\* the REST base path the base factory was configured with
RestBasePathOf(raw) == Or(raw.restBasePath, "'")

\* C26: without overrides, the query role carries the base factory's query
\* port, REST base path, content database and modules database, the other
\* roles carry their own port and base path, and host, user, password, TLS
\* flag, CA path and reject-unauthorized are copied unchanged.
C26_RoleDerivation ==
    LET CopiedUnchanged ==
            /\ derived.host = base.host
            /\ derived.user = base.user
            /\ derived.password = base.password
            /\ derived.ssl = base.ssl
            /\ derived.pathToCa = base.pathToCa
            /\ derived.rejectUnauthorized = base.rejectUnauthorized
        QueryRoleCarriesBase ==
            /\ derived.port = base.port
            /\ derived.basePath = RestBasePathOf(fRaw)
            /\ derived.database = base.database
            /\ derived.modulesDb = base.modulesDb
            /\ conn.state = "built" =>
                   /\ conn.client.port = base.port
                   /\ conn.client.basePath = RestBasePathOf(fRaw)
                   /\ conn.client.database =
                          (IF base.database = "'" THEN Null ELSE base.database)
                   /\ connParams.modulesDb = base.modulesDb
        OtherRoleCarriesItsOwn ==
            /\ role = "manage" => derived.port = base.managePort
                                  /\ derived.basePath = base.manageBasePath
            /\ role = "test" => derived.port = base.testPort
                                /\ derived.basePath = base.testBasePath
    IN  (role # "none" /\ fOverrides = EmptyBag) =>
            /\ CopiedUnchanged
            /\ role = "rest" => QueryRoleCarriesBase
            /\ OtherRoleCarriesItsOwn

\* the field of a factory that the constructor fills from raw key k
FieldOf(f, k) ==
    CASE k = "host" -> f.host
      [] k = "port" -> f.port
      [] k = "user" -> f.user
      [] k = "password" -> f.password
      [] k = "contentDb" -> f.database
      [] k = "modulesDb" -> f.modulesDb
      [] k = "ssl" -> f.ssl
      [] k = "pathToCa" -> f.pathToCa
      [] k = "rejectUnauthorized" -> f.rejectUnauthorized

\* the value the constructor stores for raw key k given v
StoredAs(k, v) ==
    CASE k = "port" -> ToNumber(v)
      [] k \in {"ssl", "rejectUnauthorized"} -> ToBoolean(v)
      [] OTHER -> v

\* C27: in every role, each field the overrides supply (host, port, user,
\* password, content database, modules database, TLS flag, CA path,
\* reject-unauthorized) holds the override's value in the derived parameters,
\* not the base factory's or the role's.
C27_OverridesWin ==
    role # "none" =>
        \A k \in OverrideKeys :
            fOverrides[k] # Undef => FieldOf(derived, k) = StoredAs(k, fOverrides[k])

C27_Witness ==
    /\ role = "manage"
    /\ base.database = "'Documents"
    /\ fOverrides.contentDb = "'Other"
    /\ derived.database = "'Other"

\* C29: with a CA path configured and the file unreadable, constructing the
\* connection throws and leaves no connection object and no HTTP client;
\* building the factory and deriving role parameters reads no CA file.
C29_UnreadableCaFailsConstruction ==
    /\ (conn.state # "none" /\ derived.pathToCa # "'" /\ ~caReadable) =>
           /\ conn.state = "threw"
           /\ conn.client = NoContext.client
           /\ conn.ca = Undef
    /\ conn.state = "none" => conn.reads = 0
    /\ conn.reads = (IF conn.state # "none" /\ derived.pathToCa # "'" THEN 1 ELSE 0)

C29_Witness ==
    /\ role = "test"
    /\ derived.pathToCa = "'/ca.pem"
    /\ ~caReadable
    /\ conn.state = "threw"
    /\ conn.reads = 1

\* C31: for a base factory built from a raw bag whose auth scheme is DIGEST,
\* BASIC or CLOUD, the connection built for any role uses that auth scheme.
C31_RoleKeepsAuthScheme ==
    (conn.state = "built" /\ fRaw.authType \in {"'DIGEST", "'BASIC", "'CLOUD"}) =>
        /\ conn.client.authType = fRaw.authType
        /\ connParams.authType = fRaw.authType

\* C32: the promise of a setBreakPoint / removeBreakPoint invocation is
\* fulfilled only once its dbg:break / dbg:clear call has completed, whether
\* the expression id was known at the invocation or had to be looked up.
C32_SettlesAfterRemoteCall ==
    \A i \in 1 .. Len(ops) :
        ops[i].pc = "resolved" =>
            \E j \in CallsOf(i) : j \in bpSettled

\* the 'XQY:' entries the sessions give, in the order of the sessions
XqyEntriesOf(its) == [k \in DOMAIN its |-> Entry("XQY", ServerTable[its[k]].name)]

\* C33: the list the filter returns keeps the matching choices in the order
\* of the input choices, whatever the order in which the probes completed;
\* the 'XQY:' entries of getConnectedServers follow the order of the sessions
\* dbg:connected() returned and precede every 'JS:' entry.
C33_ResultsInInputOrder ==
    LET IndexIn(s, x) == CHOOSE k \in DOMAIN s : s[k] = x
        InOrderOf(sub, full) ==
            \A a, b \in DOMAIN sub :
                a < b => IndexIn(full, sub[a]) < IndexIn(full, sub[b])
        Tagged(cs, tag) == {k \in DOMAIN cs : cs[k].tag = tag}
        XqyOf(cs) == SelectSeq(cs, LAMBDA x : x.tag = "XQY")
    IN  /\ FilterReturned => InOrderOf(filteredChoices, choices)
        /\ (dEntry = "getConnectedServers" /\ dPc = "resolved") =>
               /\ InOrderOf(XqyOf(dResult), XqyEntriesOf(items))
               /\ \A a \in Tagged(dResult, "XQY"), b \in Tagged(dResult, "JS") : a < b

\* the session is torn down: terminate() has been invoked, or the local
\* state is shutdown or error
TornDown == terminated \/ runTimeState \in {"shutdown", "error"}

\* C34: once the session is torn down, a pending waitTillPaused() issues no
\* wait() call beyond the one already in flight.
C34_NoPollAfterTeardown ==
    [][TornDown =>
          \A w \in 1 .. MaxWaiters :
              waiters[w].pc = "awaiting" => waiters'[w].calls = waiters[w].calls]_vars

\* C35: an invocation of waitTillPaused() completes once the engine answers
\* one of its wait() calls with a non-empty payload or a failure: it
\* completes at the first such answer, it has not completed while every
\* answer so far was the empty payload, and, every wait() call returning,
\* a pending invocation eventually completes.
C35_CompletesAtFirstAnswer ==
    LET Completed(r) == r.pc \in {"resolved", "rejected"}
    IN  /\ [](\A w \in 1 .. MaxWaiters :
                 LET r == waiters[w] IN
                 /\ EmptiesThen(r, Payloads \cup Errors) =>
                        Completed(r) /\ r.result = r.replies[Len(r.replies)]
                 /\ (\A i \in DOMAIN r.replies : r.replies[i] = "") => ~Completed(r)
                 /\ \A i \in 1 .. Len(r.replies) - 1 : r.replies[i] = "")
        /\ \A w \in 1 .. MaxWaiters :
               (waiters[w].pc = "awaiting") ~> Completed(waiters[w])

\* two empty payloads, then a failure: completed at the third answer
C35_Witness ==
    \E w \in 1 .. MaxWaiters :
        /\ waiters[w].pc = "rejected"
        /\ Len(waiters[w].replies) = 3
        /\ waiters[w].replies[1] = "" /\ waiters[w].replies[2] = ""
        /\ waiters[w].calls = 3

====
